---- MODULE Spec2Model ----
(***************************************************************************)
(* The implementations of Rand for the built-in types (src/rand_impls.rs). *)
(*                                                                         *)
(* Every impl is a function  fn rand<R: Rng>(rng: &mut R) -> T.  It is     *)
(* written here as an operator from the state of the source to the value   *)
(* and the state of the source after the call.  Machine integers are bit   *)
(* patterns of their own width, least significant bit first; floating      *)
(* point numbers are exact dyadic rationals with IEEE round-to-nearest-    *)
(* even after every arithmetic operation.                                  *)
(***************************************************************************)
EXTENDS Integers, Sequences, FiniteSets

VARIABLES platform, req, tape, pos, pc, result, ctorLog

vars == <<platform, req, tape, pos, pc, result, ctorLog>>

\* ------------------------------------------------------------------ bounds

\* Largest number of draws the source supplies to one generation.
MaxDraws == 3
\* Largest tuple arity and array length requested (the code goes to 12 and 32).
MaxArity == 2

\* ------------------------------------------------------- bit patterns

Zeros(n) == [i \in 1..n |-> 0]

\* The w-bit pattern of n, for 0 <= n < 2^w and w <= 31.
NatBits(n, w) == [i \in 1..w |-> (n \div (2 ^ (i - 1))) % 2]

RECURSIVE BitsNat(_)
\* The number a pattern of at most 30 bits stands for.
BitsNat(b) == IF b = << >> THEN 0 ELSE b[1] + 2 * BitsNat(Tail(b))

\* x as uN: the low w bits.
Truncate(b, w) == SubSeq(b, 1, w)

\* x as uN, widening an unsigned pattern to w bits.
ZeroExtend(b, w) == b \o Zeros(w - Len(b))

\* x << s at the width of x.
Shl(b, s) == SubSeq(Zeros(s) \o b, 1, Len(b))

BitAnd(a, b) == [i \in 1..Len(a) |-> IF a[i] = 1 /\ b[i] = 1 THEN 1 ELSE 0]

BitOr(a, b) == [i \in 1..Len(a) |-> IF a[i] = 1 \/ b[i] = 1 THEN 1 ELSE 0]

\* A 64-bit word from its four 16-bit quarters, most significant first.
Word(q3, q2, q1, q0) ==
    NatBits(q0, 16) \o NatBits(q1, 16) \o NatBits(q2, 16) \o NatBits(q3, 16)

\* ------------------------------------------------------------ the source

\* The raw words the source may yield: zero, one, all ones, the edges of the
\* surrogate range and of the code points with and without high bits set,
\* sign bits, and mantissas at and around one half and the maximum.
Words ==
    { Word(0, 0, 0, 0),
      Word(0, 0, 0, 1),
      Word(65535, 65535, 65535, 65535),
      Word(4660, 22136, 65504, 55296),
      Word(15, 65535, 65504, 57343),
      Word(32768, 0, 32784, 65535),
      Word(8, 0, 17, 0),
      Word(0, 0, 65504, 55295),
      Word(43981, 4, 7, 57344) }

\* A source that yields the words of `t` in order, none of them drawn yet.
Rng(t) == [tape |-> t, pos |-> 0, starved |-> FALSE]

\* The next raw word of the source.  A source asked for more than its tape
\* holds is starved: the call made on it has not got all its draws yet.
NextWord(rng) ==
    IF rng.starved \/ rng.pos >= Len(rng.tape)
    THEN [val |-> Zeros(64), rng |-> [rng EXCEPT !.starved = TRUE]]
    ELSE [val |-> rng.tape[rng.pos + 1], rng |-> [rng EXCEPT !.pos = @ + 1]]

\* Rng::next_u64
next_u64(rng) == NextWord(rng)

\* Rng::next_u32: one draw, 32 bits wide.
next_u32(rng) ==
    LET r == NextWord(rng) IN [val |-> Truncate(r.val, 32), rng |-> r.rng]

\* -------------------------------------------------------------- values

Pending == [t |-> "pending"]
IntVal(ty, bits) == [t |-> "int", ty |-> ty, bits |-> bits]
BoolVal(b) == [t |-> "bool", b |-> b]
UnitVal == [t |-> "unit"]
CharVal(n) == [t |-> "char", c |-> n]
None == [t |-> "none"]
Some(v) == [t |-> "some", v |-> v]
TupleVal(elems) == [t |-> "tuple", elems |-> elems]
ArrayVal(elems) == [t |-> "array", elems |-> elems]
SeededVal(seed) == [t |-> "seeded", seed |-> seed]

\* --------------------------------------------------------------- types

T(k) == [k |-> k]
OptionOf(ty) == [k |-> "option", of |-> ty]
TupleOf(tys) == [k |-> "tuple", elems |-> tys]
ArrayOf(ty, n) == [k |-> "array", of |-> ty, n |-> n]

\* ---------------------------------------------------- scalar integers

Rand_i8(rng) ==
    LET r == next_u32(rng) IN [val |-> IntVal("i8", Truncate(r.val, 8)), rng |-> r.rng]

Rand_i16(rng) ==
    LET r == next_u32(rng) IN [val |-> IntVal("i16", Truncate(r.val, 16)), rng |-> r.rng]

Rand_i32(rng) ==
    LET r == next_u32(rng) IN [val |-> IntVal("i32", Truncate(r.val, 32)), rng |-> r.rng]

Rand_i64(rng) ==
    LET r == next_u64(rng) IN [val |-> IntVal("i64", Truncate(r.val, 64)), rng |-> r.rng]

\* A Rand for u8 that takes the top byte of the draw instead of the low one.
Rand_u8_top_byte(rng) ==
    LET r == next_u32(rng) IN [val |-> IntVal("u8", SubSeq(r.val, 25, 32)), rng |-> r.rng]


Rand_u8(rng) ==
    LET r == next_u32(rng) IN [val |-> IntVal("u8", Truncate(r.val, 8)), rng |-> r.rng]

Rand_u16(rng) ==
    LET r == next_u32(rng) IN [val |-> IntVal("u16", Truncate(r.val, 16)), rng |-> r.rng]

Rand_u32(rng) ==
    LET r == next_u32(rng) IN [val |-> IntVal("u32", r.val), rng |-> r.rng]

Rand_u64(rng) ==
    LET r == next_u64(rng) IN [val |-> IntVal("u64", r.val), rng |-> r.rng]

\* A Rand for u128 that puts the second draw in the high half.
Rand_u128_swapped(rng) ==
    LET a == next_u64(rng)
        b == next_u64(a.rng)
    IN  [val |-> IntVal("u128", BitOr(Shl(ZeroExtend(b.val, 128), 64),
                                      ZeroExtend(a.val, 128))),
         rng |-> b.rng]

\* ((rng.next_u64() as u128) << 64) | (rng.next_u64() as u128): the operands
\* of | are evaluated left to right.
Rand_u128(rng) ==
    LET a == next_u64(rng)
        b == next_u64(a.rng)
    IN  [val |-> IntVal("u128", BitOr(Shl(ZeroExtend(a.val, 128), 64),
                                      ZeroExtend(b.val, 128))),
         rng |-> b.rng]

\* rng.gen::<u128>() as i128
Rand_i128(rng) ==
    LET r == Rand_u128(rng) IN [val |-> IntVal("i128", Truncate(r.val.bits, 128)), rng |-> r.rng]

\* mem::size_of::<isize>() is `bytes`.
Rand_isize(rng, bytes) ==
    IF bytes = 4
    THEN LET r == Rand_i32(rng) IN [val |-> IntVal("isize", Truncate(r.val.bits, 32)), rng |-> r.rng]
    ELSE LET r == Rand_i64(rng) IN [val |-> IntVal("isize", Truncate(r.val.bits, 64)), rng |-> r.rng]

Rand_usize(rng, bytes) ==
    IF bytes = 4
    THEN LET r == Rand_u32(rng) IN [val |-> IntVal("usize", Truncate(r.val.bits, 32)), rng |-> r.rng]
    ELSE LET r == Rand_u64(rng) IN [val |-> IntVal("usize", Truncate(r.val.bits, 64)), rng |-> r.rng]

\* ------------------------------------------- natural numbers of any size
\* A natural number is its digits to the base 2^15, least significant first,
\* with no leading zero: << >> is 0.

Base == 2 ^ 15

RECURSIVE Norm(_)
Norm(a) == IF a = << >> \/ a[Len(a)] # 0 THEN a ELSE Norm(SubSeq(a, 1, Len(a) - 1))

Limb(a, i) == IF 1 <= i /\ i <= Len(a) THEN a[i] ELSE 0

\* The number a bit pattern stands for.
BitsToBig(bits) ==
    Norm([i \in 1..((Len(bits) + 14) \div 15) |->
            BitsNat(SubSeq(bits, 15 * (i - 1) + 1,
                           IF 15 * i < Len(bits) THEN 15 * i ELSE Len(bits)))])

RECURSIVE AddFrom(_, _, _, _, _)
AddFrom(a, b, i, carry, acc) ==
    IF i > Len(a) /\ i > Len(b)
    THEN IF carry = 1 THEN Append(acc, 1) ELSE acc
    ELSE LET s == Limb(a, i) + Limb(b, i) + carry
         IN  AddFrom(a, b, i + 1, s \div Base, Append(acc, s % Base))

BigAdd(a, b) == AddFrom(a, b, 1, 0, << >>)

RECURSIVE SubFrom(_, _, _, _, _)
SubFrom(a, b, i, borrow, acc) ==
    IF i > Len(a)
    THEN Norm(acc)
    ELSE LET d == Limb(a, i) - Limb(b, i) - borrow
         IN  SubFrom(a, b, i + 1, IF d < 0 THEN 1 ELSE 0, Append(acc, d % Base))

\* a - b, for a >= b.
BigSub(a, b) == SubFrom(a, b, 1, 0, << >>)

RECURSIVE LessFrom(_, _, _)
LessFrom(a, b, i) ==
    IF i = 0 THEN FALSE
    ELSE IF a[i] # b[i] THEN a[i] < b[i]
    ELSE LessFrom(a, b, i - 1)

BigLess(a, b) ==
    IF Len(a) # Len(b) THEN Len(a) < Len(b) ELSE LessFrom(a, b, Len(a))

\* a * k, for a digit k.
MulSmall(a, k) ==
    BigAdd(Norm([i \in 1..Len(a) |-> (a[i] * k) % Base]),
           Norm(<<0>> \o [i \in 1..Len(a) |-> (a[i] * k) \div Base]))

ShlLimbs(a, n) == IF a = << >> THEN a ELSE Zeros(n) \o a

\* a * 2^s
BigShl(a, s) == ShlLimbs(MulSmall(a, 2 ^ (s % 15)), s \div 15)

\* a \div 2^s
BigShr(a, s) ==
    LET d == SubSeq(a, (s \div 15) + 1, Len(a))
        t == s % 15
    IN  Norm([i \in 1..Len(d) |->
                (d[i] \div (2 ^ t)) + (Limb(d, i + 1) % (2 ^ t)) * (2 ^ (15 - t))])

\* The number of binary digits of a.
BitLen(a) ==
    IF a = << >> THEN 0
    ELSE 15 * (Len(a) - 1)
         + (CHOOSE k \in 1..15 : 2 ^ (k - 1) <= a[Len(a)] /\ a[Len(a)] < 2 ^ k)

\* The number of zero binary digits a > 0 ends with.
LowZeros(a) ==
    LET i == CHOOSE j \in 1..Len(a) : a[j] # 0 /\ \A h \in 1..(j - 1) : a[h] = 0
    IN  15 * (i - 1) + (CHOOSE k \in 0..14 : a[i] % (2 ^ (k + 1)) = 2 ^ k)

IsOdd(a) == a # << >> /\ a[1] % 2 = 1

RECURSIVE MulFrom(_, _, _, _)
MulFrom(a, b, j, acc) ==
    IF j > Len(b) THEN acc
    ELSE MulFrom(a, b, j + 1, BigAdd(acc, ShlLimbs(MulSmall(a, b[j]), j - 1)))

BigMul(a, b) == MulFrom(a, b, 1, << >>)

RECURSIVE DivBit(_, _, _, _, _)
\* Long division over the binary digits k, k-1, .. 0 of one digit `limb` of
\* the dividend, r the remainder so far: [q, r].
DivBit(limb, b, k, q, r) ==
    IF k < 0 THEN [q |-> q, r |-> r]
    ELSE LET bit == (limb \div (2 ^ k)) % 2
             r2  == BigAdd(BigShl(r, 1), IF bit = 1 THEN <<1>> ELSE << >>)
         IN  IF BigLess(r2, b)
             THEN DivBit(limb, b, k - 1, 2 * q, r2)
             ELSE DivBit(limb, b, k - 1, 2 * q + 1, BigSub(r2, b))

RECURSIVE DivFrom(_, _, _, _)
\* Long division over the digits of a, from the top: q holds one digit for
\* each digit of a divided so far.
DivFrom(a, b, q, r) ==
    IF Len(q) = Len(a) THEN [q |-> Norm(q), r |-> r]
    ELSE LET d == DivBit(a[Len(a) - Len(q)], b, 14, 0, r)
         IN  DivFrom(a, b, <<d.q>> \o q, d.r)

\* [q, r] with a = q * b + r and r < b, for b > 0.
BigDivMod(a, b) == DivFrom(a, b, << >>, << >>)

\* ------------------------------------------------------ floating point
\* A finite non-negative float is m * 2^e with m a natural number that is
\* odd, or 0 with e = 0.  A format of `mant` mantissa bits holds the numbers
\* whose m has at most mant + 1 digits.  Every value met here lies between
\* 2^-54 and 2^53, inside the normal range of both formats.

F32_MANTISSA_BITS == 23
F64_MANTISSA_BITS == 52

\* m * 2^e as a float, for a natural number m.
Float(m, e) ==
    IF m = << >> THEN [t |-> "float", m |-> << >>, e |-> 0]
    ELSE [t |-> "float", m |-> BigShr(m, LowZeros(m)), e |-> e + LowZeros(m)]

\* m * 2^e rounded to the nearest number of the format, ties to even.
Round(m, e, mant) ==
    LET s == BitLen(m) - (mant + 1)
    IN  IF s <= 0 THEN Float(m, e)
        ELSE LET kept == BigShr(m, s)
                 rest == BigSub(m, BigShl(kept, s))
                 half == BigShl(<<1>>, s - 1)
                 up   == BigLess(half, rest) \/ (rest = half /\ IsOdd(kept))
             IN  Float(IF up THEN BigAdd(kept, <<1>>) ELSE kept, e + s)

FMul(a, b, mant) == Round(BigMul(a.m, b.m), a.e + b.e, mant)

FAdd(a, b, mant) ==
    LET e == IF a.e < b.e THEN a.e ELSE b.e
    IN  Round(BigAdd(BigShl(a.m, a.e - e), BigShl(b.m, b.e - e)), e, mant)

\* a - b, for a >= b.
FSub(a, b, mant) ==
    LET e == IF a.e < b.e THEN a.e ELSE b.e
    IN  Round(BigSub(BigShl(a.m, a.e - e), BigShl(b.m, b.e - e)), e, mant)

\* a / b, for b > 0: the quotient to mant + 3 binary digits or more, and one
\* digit below them that says whether anything is left over.
FDiv(a, b, mant) ==
    IF a.m = << >> THEN Float(<< >>, 0)
    ELSE LET need == mant + 3 + BitLen(b.m) - BitLen(a.m)
             s    == IF need > 0 THEN need ELSE 0
             d    == BigDivMod(BigShl(a.m, s), b.m)
         IN  Round(BigAdd(BigShl(d.q, 1), IF d.r = << >> THEN << >> ELSE <<1>>),
                   a.e - b.e - s - 1, mant)

FLess(a, b) ==
    LET e == IF a.e < b.e THEN a.e ELSE b.e
    IN  BigLess(BigShl(a.m, a.e - e), BigShl(b.m, b.e - e))

\* (n as $ty) for an unsigned integer pattern n.
FromUInt(bits, mant) == Round(BitsToBig(bits), 0, mant)

F_1_0 == Float(<<1>>, 0)
F_0_25 == Float(<<1>>, -2)
F_0_0 == Float(<< >>, 0)

\* const SCALE: $ty = (1u64 << $mantissa_bits) as $ty;
SCALE(mant) == FromUInt(Shl(ZeroExtend(<<1>>, 64), mant), mant)

\* Rng::next_f32 / next_f64: a draw k / 2^mant of the half-open interval,
\* k the low mant bits of one raw word.
next_f(rng, mant) ==
    LET r == NextWord(rng)
    IN  [val |-> Float(BitsToBig(Truncate(r.val, mant)), -mant), rng |-> r.rng]

\* impl Rand for $ty
Rand_float(rng, mant) == next_f(rng, mant)

\* An Open01 that adds a whole epsilon, 1.0 / SCALE.
Rand_Open01_whole_epsilon(rng, mant) ==
    LET r == next_f(rng, mant)
    IN  [val |-> FAdd(r.val, FDiv(F_1_0, SCALE(mant), mant), mant), rng |-> r.rng]

\* Open01(rng.$method_name() + 0.25 / SCALE)
Rand_Open01(rng, mant) ==
    LET r == next_f(rng, mant)
    IN  [val |-> FAdd(r.val, FDiv(F_0_25, SCALE(mant), mant), mant), rng |-> r.rng]

\* A Closed01 that divides by SCALE instead of SCALE - 1.0.
Rand_Closed01_by_scale(rng, mant) ==
    LET r == next_f(rng, mant)
    IN  [val |-> FDiv(FMul(r.val, SCALE(mant), mant), SCALE(mant), mant),
         rng |-> r.rng]

\* Closed01(rng.$method_name() * SCALE / (SCALE - 1.0))
Rand_Closed01(rng, mant) ==
    LET r == next_f(rng, mant)
    IN  [val |-> FDiv(FMul(r.val, SCALE(mant), mant),
                      FSub(SCALE(mant), F_1_0, mant), mant),
         rng |-> r.rng]

\* ---------------------------------------------------------------- char

\* const CHAR_MASK: u32 = 0x001f_ffff;
CHAR_MASK == ZeroExtend(NatBits(2097151, 21), 32)

\* A from_u32 that checks the upper limit only.
CharFromNumber_surrogates_pass(n) ==
    IF n > 1114111 THEN None ELSE Some(CharVal(n))

\* core::char::from_u32 on the number n: None for a surrogate,
\* 0xD800..=0xDFFF, and for a number above char::MAX, 0x10FFFF.
CharFromNumber(n) ==
    IF n > 1114111 \/ (n >= 55296 /\ n <= 57343) THEN None
    ELSE Some(CharVal(n))

\* core::char::from_u32 on a 32-bit pattern: a pattern with one of its upper
\* 11 bits set stands for a number above 0x1FFFFF.
from_u32(i) ==
    IF \E j \in 22..32 : i[j] = 1 THEN None
    ELSE CharFromNumber(BitsNat(Truncate(i, 21)))

\* A turn of the loop that does not mask the draw.
CharAttempt_unmasked(rng) ==
    LET r == next_u32(rng) IN [c |-> from_u32(r.val), rng |-> r.rng]

\* One turn of the loop of impl Rand for char:
\* char::from_u32(rng.next_u32() & CHAR_MASK)
CharAttempt(rng) ==
    LET r == next_u32(rng) IN [c |-> from_u32(BitAnd(r.val, CHAR_MASK)), rng |-> r.rng]

\* ------------------------------------------------------------ compound

\* rng.gen::<u8>() & 1 == 1
Rand_bool(rng) ==
    LET r == Rand_u8(rng)
    IN  [val |-> BoolVal(BitAnd(r.val.bits, NatBits(1, 8)) = NatBits(1, 8)), rng |-> r.rng]

\* impl Rand for ()
Rand_unit(rng) == [val |-> UnitVal, rng |-> rng]

RECURSIVE gen(_, _)
RECURSIVE GenEach(_, _, _)

\* The expressions rng.gen::<A>(), rng.gen::<B>(), .. of a tuple or an array
\* expression, evaluated in the order they are written.
GenEach(tys, rng, acc) ==
    IF tys = << >> THEN [val |-> acc, rng |-> rng]
    ELSE LET r == gen(Head(tys), rng)
         IN  GenEach(Tail(tys), r.rng, Append(acc, r.val))

RECURSIVE GenEachBackwards(_, _, _)
GenEachBackwards(tys, rng, acc) ==
    IF tys = << >> THEN [val |-> acc, rng |-> rng]
    ELSE LET r == gen(tys[Len(tys)], rng)
         IN  GenEachBackwards(SubSeq(tys, 1, Len(tys) - 1), r.rng, <<r.val>> \o acc)

\* A tuple impl that evaluates its element expressions right to left.
Rand_tuple_backwards(tys, rng) ==
    LET r == GenEachBackwards(tys, rng, << >>) IN [val |-> TupleVal(r.val), rng |-> r.rng]

\* tuple_impl!
Rand_tuple(tys, rng) ==
    LET r == GenEach(tys, rng, << >>) IN [val |-> TupleVal(r.val), rng |-> r.rng]

\* array_impl!: [] for n = 0, [_rng.gen::<T>(), ..] with n elements otherwise.
Rand_array(ty, n, rng) ==
    IF n = 0 THEN [val |-> ArrayVal(<< >>), rng |-> rng]
    ELSE LET r == GenEach([i \in 1..n |-> ty], rng, << >>)
         IN  [val |-> ArrayVal(r.val), rng |-> r.rng]

\* An Option impl that generates the inner value before it looks at the bool.
Rand_Option_eager(ty, rng) ==
    LET b == Rand_bool(rng)
        v == gen(ty, b.rng)
    IN  IF b.val.b THEN [val |-> Some(v.val), rng |-> v.rng]
        ELSE [val |-> None, rng |-> v.rng]

\* if rng.gen() { Some(rng.gen()) } else { None }
Rand_Option(ty, rng) ==
    LET b == Rand_bool(rng)
    IN  IF b.val.b
        THEN LET v == gen(ty, b.rng) IN [val |-> Some(v.val), rng |-> v.rng]
        ELSE [val |-> None, rng |-> b.rng]

\* Rng::gen::<T>(): T::rand(rng), for the integers, bool, () and the
\* compound types.
gen(ty, rng) ==
    CASE ty.k = "isize" -> Rand_isize(rng, platform)
      [] ty.k = "i8" -> Rand_i8(rng)
      [] ty.k = "i16" -> Rand_i16(rng)
      [] ty.k = "i32" -> Rand_i32(rng)
      [] ty.k = "i64" -> Rand_i64(rng)
      [] ty.k = "i128" -> Rand_i128(rng)
      [] ty.k = "usize" -> Rand_usize(rng, platform)
      [] ty.k = "u8" -> Rand_u8(rng)
      [] ty.k = "u16" -> Rand_u16(rng)
      [] ty.k = "u32" -> Rand_u32(rng)
      [] ty.k = "u64" -> Rand_u64(rng)
      [] ty.k = "u128" -> Rand_u128(rng)
      [] ty.k = "bool" -> Rand_bool(rng)
      [] ty.k = "unit" -> Rand_unit(rng)
      [] ty.k = "tuple" -> Rand_tuple(ty.elems, rng)
      [] ty.k = "array" -> Rand_array(ty.of, ty.n, rng)
      [] ty.k = "option" -> Rand_Option(ty.of, rng)

\* ------------------------------------------------------- seedable types

\* SeedableRng::from_rng, the constructor of the requested type: it seeds
\* itself with one word of the source and reports Ok(value) or, when
\* `fails`, Err.
from_rng(rng, fails) ==
    LET r == next_u64(rng)
    IN  [res |-> IF fails THEN [ok |-> FALSE, val |-> Pending]
                 ELSE [ok |-> TRUE, val |-> SeededVal(r.val)],
         rng |-> r.rng]

\* A Rand for seedable types that calls the constructor again when it fails.
Rand_seedable_retry(rng, fails) ==
    LET c == from_rng(rng, fails)
        d == from_rng(c.rng, FALSE)
    IN  IF c.res.ok
        THEN [calls |-> <<c.res>>, panic |-> FALSE, val |-> c.res.val, rng |-> c.rng]
        ELSE [calls |-> <<c.res, d.res>>, panic |-> FALSE, val |-> d.res.val, rng |-> d.rng]

\* Self::from_rng(rng).unwrap(): the value of Ok, a panic on Err.  `calls`
\* are the results of the constructor calls made, in order.
Rand_seedable(rng, fails) ==
    LET c == from_rng(rng, fails)
    IN  [calls |-> <<c.res>>, panic |-> ~c.res.ok, val |-> c.res.val, rng |-> c.rng]

\* ------------------------------------------------------------ requests

IntKinds ==
    {"isize", "i8", "i16", "i32", "i64", "i128",
     "usize", "u8", "u16", "u32", "u64", "u128"}

FloatKinds ==
    {"f32", "f64", "Open01<f32>", "Open01<f64>", "Closed01<f32>", "Closed01<f64>"}

\* The element types of the compound requests.
ElemTypes == {T("u8"), OptionOf(T("u8"))}

TupleRequests ==
    UNION {{TupleOf(tys) : tys \in [1..n -> ElemTypes]} : n \in 1..MaxArity}

ArrayRequests == {ArrayOf(ty, n) : ty \in ElemTypes, n \in 0..MaxArity}

OptionRequests == {OptionOf(ty) : ty \in ElemTypes \cup {T("u16"), T("bool")}}

Requests ==
    {T(k) : k \in IntKinds \cup FloatKinds \cup {"bool", "unit", "char", "seedable"}}
    \cup TupleRequests \cup ArrayRequests \cup OptionRequests

RECURSIVE Feed(_, _)
\* The runs of one call gen::<ty>() on the draw sequences t or longer that
\* the source can supply: the call is given draw after draw until it asks
\* for no more.  A run is the draws taken and what the call returns.
Feed(ty, t) ==
    LET r == gen(ty, Rng(t))
    IN  IF ~r.rng.starved THEN {[tape |-> t, ret |-> r]}
        ELSE IF Len(t) >= MaxDraws THEN {}
        ELSE UNION {Feed(ty, Append(t, w)) : w \in Words}

Runs(ty) == Feed(ty, << >>)

\* The mantissa bits of the float type of a float request.
MantissaOf(ty) ==
    IF ty.k \in {"f32", "Open01<f32>", "Closed01<f32>"}
    THEN F32_MANTISSA_BITS ELSE F64_MANTISSA_BITS

\* ------------------------------------------------------------- machine

Init ==
    /\ platform \in {4, 8}
    /\ req \in Requests
    /\ tape = << >>
    /\ pos = 0
    /\ pc = "call"
    /\ result = Pending
    /\ ctorLog = << >>

\* The return of a call: the draws it took and the value it returns.
Return(t, r) ==
    /\ tape' = t
    /\ pos' = r.rng.pos
    /\ result' = r.val
    /\ pc' = "done"
    /\ UNCHANGED <<platform, req, ctorLog>>

\* The call  rng.gen::<ty>()  from its entry to its return.
Serve(ty) == \E run \in Runs(ty) : Return(run.tape, run.ret)

Gen_isize ==
    /\ pc = "call" /\ req = T("isize")
    /\ Serve(req)

Gen_i8 ==
    /\ pc = "call" /\ req = T("i8")
    /\ Serve(req)

Gen_i16 ==
    /\ pc = "call" /\ req = T("i16")
    /\ Serve(req)

Gen_i32 ==
    /\ pc = "call" /\ req = T("i32")
    /\ Serve(req)

Gen_i64 ==
    /\ pc = "call" /\ req = T("i64")
    /\ Serve(req)

Gen_i128 ==
    /\ pc = "call" /\ req = T("i128")
    /\ Serve(req)

Gen_usize ==
    /\ pc = "call" /\ req = T("usize")
    /\ Serve(req)

Gen_u8 ==
    /\ pc = "call" /\ req = T("u8")
    /\ Serve(req)

Gen_u16 ==
    /\ pc = "call" /\ req = T("u16")
    /\ Serve(req)

Gen_u32 ==
    /\ pc = "call" /\ req = T("u32")
    /\ Serve(req)

Gen_u64 ==
    /\ pc = "call" /\ req = T("u64")
    /\ Serve(req)

Gen_u128 ==
    /\ pc = "call" /\ req = T("u128")
    /\ Serve(req)

Gen_float ==
    /\ pc = "call" /\ req \in {T("f32"), T("f64")}
    /\ \E w \in Words :
         LET r == Rand_float(Rng(<<w>>), MantissaOf(req))
         IN  ~r.rng.starved /\ Return(<<w>>, r)

Gen_Open01 ==
    /\ pc = "call" /\ req \in {T("Open01<f32>"), T("Open01<f64>")}
    /\ \E w \in Words :
         LET r == Rand_Open01(Rng(<<w>>), MantissaOf(req))
         IN  ~r.rng.starved /\ Return(<<w>>, r)

Gen_Closed01 ==
    /\ pc = "call" /\ req \in {T("Closed01<f32>"), T("Closed01<f64>")}
    /\ \E w \in Words :
         LET r == Rand_Closed01(Rng(<<w>>), MantissaOf(req))
         IN  ~r.rng.starved /\ Return(<<w>>, r)

Gen_bool ==
    /\ pc = "call" /\ req = T("bool")
    /\ Serve(req)

Gen_unit ==
    /\ pc = "call" /\ req = T("unit")
    /\ Serve(req)

Gen_tuple ==
    /\ pc = "call" /\ req.k = "tuple"
    /\ Serve(req)

Gen_array ==
    /\ pc = "call" /\ req.k = "array"
    /\ Serve(req)

Gen_Option ==
    /\ pc = "call" /\ req.k = "option"
    /\ Serve(req)

\* One turn of the loop of impl Rand for char: a draw, and the return of the
\* char it makes or the next turn.
Gen_char ==
    /\ pc \in {"call", "loop"}
    /\ req = T("char")
    /\ Len(tape) < MaxDraws
    /\ \E w \in Words :
         LET a == CharAttempt([tape |-> Append(tape, w), pos |-> pos, starved |-> FALSE])
         IN  /\ tape' = Append(tape, w)
             /\ pos' = a.rng.pos
             /\ IF a.c = None
                THEN pc' = "loop" /\ result' = result
                ELSE pc' = "done" /\ result' = a.c.v
    /\ UNCHANGED <<platform, req, ctorLog>>

\* impl<T: SeedableRng> Rand for T
Gen_seedable ==
    /\ pc = "call"
    /\ req = T("seedable")
    /\ \E w \in Words, fails \in BOOLEAN :
         LET r == Rand_seedable(Rng(<<w>>), fails)
         IN  /\ tape' = <<w>>
             /\ pos' = r.rng.pos
             /\ ctorLog' = ctorLog \o r.calls
             /\ IF r.panic
                THEN pc' = "panicked" /\ result' = result
                ELSE pc' = "done" /\ result' = r.val
    /\ UNCHANGED <<platform, req>>

Next ==
    \/ Gen_isize \/ Gen_i8 \/ Gen_i16 \/ Gen_i32 \/ Gen_i64 \/ Gen_i128
    \/ Gen_usize \/ Gen_u8 \/ Gen_u16 \/ Gen_u32 \/ Gen_u64 \/ Gen_u128
    \/ Gen_float \/ Gen_Open01 \/ Gen_Closed01
    \/ Gen_char \/ Gen_bool \/ Gen_unit
    \/ Gen_tuple \/ Gen_array \/ Gen_Option
    \/ Gen_seedable

Spec == Init /\ [][Next]_vars

\* ================================================================ claims

Done(k) == pc = "done" /\ req = T(k)

\* The i-th draw of the generation, as the 32-bit draw next_u32 returns.
Draw32(i) == SubSeq(tape[i], 1, 32)

Lo16(d) == BitsNat(SubSeq(d, 1, 16))
Hi16(d) == BitsNat(SubSeq(d, 17, 32))

\* The number the low w bits n stand for in two's complement, w <= 16.
Signed(n, w) == IF n >= 2 ^ (w - 1) THEN n - 2 ^ w ELSE n

\* A scalar value: not a surrogate, not above 0x10FFFF.
IsScalarValue(n) == n \in 0..1114111 /\ ~(n \in 55296..57343)

\* The low 21 bits of the i-th draw.
Masked(i) == BitsNat(SubSeq(tape[i], 1, 21))

\* ---------------------------------------------------------------- C1
\* C1: a char generation that returns yields a Unicode scalar value: never a
\* surrogate 0xD800..0xDFFF and never above 0x10FFFF, whatever the draws.
C1_CharIsScalarValue ==
    Done("char") =>
        /\ result.t = "char"
        /\ result.c <= 1114111
        /\ ~(result.c >= 55296 /\ result.c <= 57343)

\* A char returned after a surrogate and an all-ones draw were rejected.
C1_Witness ==
    /\ Done("char")
    /\ Len(tape) = 3
    /\ Masked(1) = 55296
    /\ Masked(2) = 2097151
    /\ result = CharVal(55295)

\* ---------------------------------------------------------------- C2
\* C2: u8/u16/u32 take exactly one 32-bit draw d and return d mod 2^w;
\* i8/i16/i32 return the two's-complement reading of the same low w bits.
C2_LowBitsOfOneDraw ==
    \A k \in {"u8", "u16", "u32", "i8", "i16", "i32"} :
        Done(k) =>
            /\ pos = 1 /\ Len(tape) = 1
            /\ result.t = "int" /\ result.ty = k
            /\ LET d == Draw32(1)
                   b == result.bits
               IN  CASE k = "u8"  -> Len(b) = 8 /\ BitsNat(b) = Lo16(d) % 256
                     [] k = "u16" -> Len(b) = 16 /\ BitsNat(b) = Lo16(d)
                     [] k = "u32" -> Len(b) = 32 /\ Lo16(b) = Lo16(d) /\ Hi16(b) = Hi16(d)
                     [] k = "i8"  -> Len(b) = 8
                                     /\ Signed(BitsNat(b), 8) = Signed(Lo16(d) % 256, 8)
                                     /\ Signed(BitsNat(b), 8) \in -128..127
                     [] k = "i16" -> Len(b) = 16
                                     /\ Signed(BitsNat(b), 16) = Signed(Lo16(d), 16)
                     [] k = "i32" -> Len(b) = 32
                                     /\ Signed(Hi16(b), 16) * 65536 + Lo16(b)
                                        = Signed(Hi16(d), 16) * 65536 + Lo16(d)

\* A u8 of 0xFF from a draw whose higher bytes are not 0xFF.
C2_Witness ==
    /\ Done("u8")
    /\ Lo16(Draw32(1)) = 57343 /\ Hi16(Draw32(1)) = 65504
    /\ BitsNat(result.bits) = 255

\* ---------------------------------------------------------------- C3
\* C3: a 128-bit integer takes exactly two 64-bit draws and is
\* first * 2^64 + second; i128 is the same pattern read as signed, so it is
\* negative exactly when the top bit of the first draw is set.
C3_TwoDrawsHighThenLow ==
    \A k \in {"u128", "i128"} :
        Done(k) =>
            /\ pos = 2 /\ Len(tape) = 2
            /\ result.t = "int" /\ result.ty = k
            /\ Len(result.bits) = 128
            /\ BitsToBig(result.bits)
                 = BigAdd(BigMul(BitsToBig(tape[1]), BigShl(<<1>>, 64)),
                          BitsToBig(tape[2]))
            /\ result.bits[128] = tape[1][64]

\* A u128 from two different draws, the first 1 and the second all ones.
C3_Witness ==
    /\ Done("u128")
    /\ tape = <<Word(0, 0, 0, 1), Word(65535, 65535, 65535, 65535)>>
    /\ BitsToBig(result.bits) = <<32767, 32767, 32767, 32767, 31>>

\* ---------------------------------------------------------------- C4

\* The half-open draw k / 2^m the float generation took.
DrawF == Float(BitsToBig(SubSeq(tape[1], 1, MantissaOf(req))), -MantissaOf(req))

\* 1.0 - epsilon, the largest half-open draw.
OneMinusEpsilon(mant) == Float(BigSub(BigShl(<<1>>, mant), <<1>>), -mant)

\* C4: for every half-open draw d = k / 2^m the Closed01 result lies in
\* [0, 1]; it is 0.0 for d = 0.0 and exactly 1.0 for d = 1.0 - epsilon.
\* (A float of the model is never negative.)
C4_Closed01InUnitInterval ==
    \A k \in {"Closed01<f32>", "Closed01<f64>"} :
        Done(k) =>
            /\ result.t = "float"
            /\ BitLen(result.m) <= MantissaOf(req) + 1
            /\ ~FLess(F_1_0, result)
            /\ DrawF = F_0_0 => result = F_0_0
            /\ DrawF = OneMinusEpsilon(MantissaOf(req)) => result = F_1_0

\* The largest f64 draw, rescaled to exactly 1.0.
C4_Witness ==
    /\ Done("Closed01<f64>")
    /\ DrawF = OneMinusEpsilon(F64_MANTISSA_BITS)
    /\ result = F_1_0

\* ---------------------------------------------------------------- C5
\* C5: for every half-open draw d = k / 2^m the Open01 result is strictly
\* between 0.0 and 1.0; it is 0.25 * epsilon for d = 0.0 and 1.0 - epsilon
\* for d = 1.0 - epsilon.
C5_Open01StrictlyInside ==
    \A k \in {"Open01<f32>", "Open01<f64>"} :
        Done(k) =>
            /\ result.t = "float"
            /\ BitLen(result.m) <= MantissaOf(req) + 1
            /\ FLess(F_0_0, result)
            /\ FLess(result, F_1_0)
            /\ DrawF = F_0_0 => result = Float(<<1>>, -(MantissaOf(req) + 2))
            /\ DrawF = OneMinusEpsilon(MantissaOf(req))
                 => result = OneMinusEpsilon(MantissaOf(req))

\* The largest f32 draw, left at 1.0 - epsilon.
C5_Witness ==
    /\ Done("Open01<f32>")
    /\ DrawF = OneMinusEpsilon(F32_MANTISSA_BITS)
    /\ result = OneMinusEpsilon(F32_MANTISSA_BITS)

\* ---------------------------------------------------------------- C6

\* The source after the first n draws of the generation.
RngAt(n) == [tape |-> tape, pos |-> n, starved |-> FALSE]

\* C6: an Option<T> takes one 32-bit draw first, whose low bit is the bool;
\* on 0 the result is None and that draw is the only one; on 1 it is Some(v)
\* with v generated from the draws after it.
C6_OptionDrawsBoolFirst ==
    (pc = "done" /\ req.k = "option") =>
        /\ pos >= 1 /\ pos = Len(tape)
        /\ Draw32(1)[1] = 0 => result = None /\ pos = 1
        /\ Draw32(1)[1] = 1 =>
             /\ result = Some(gen(req.of, RngAt(1)).val)
             /\ pos = gen(req.of, RngAt(1)).rng.pos
             /\ ~gen(req.of, RngAt(1)).rng.starved

\* None from a single draw that is not zero, for an Option<Option<u8>>.
C6_Witness ==
    /\ pc = "done" /\ req = OptionOf(OptionOf(T("u8")))
    /\ tape = <<Word(4660, 22136, 65504, 55296)>>
    /\ result = None

\* ---------------------------------------------------------------- C7

\* The element types of a tuple, array or unit request, in position order.
ElemsOf(ty) ==
    CASE ty.k = "tuple" -> ty.elems
      [] ty.k = "array" -> [i \in 1..ty.n |-> ty.of]
      [] ty.k = "unit" -> << >>

RECURSIVE StartOf(_, _)
\* The draws taken before element i: those of the elements before it.
StartOf(tys, i) ==
    IF i = 1 THEN 0
    ELSE gen(tys[i - 1], RngAt(StartOf(tys, i - 1))).rng.pos

\* C7: a tuple or array of n elements is n element generations in position
\* order, element i taking the draws right after those of element i - 1, so
\* the value is a function of the draw sequence alone; an empty array and
\* () take no draw.
C7_ElementsInPositionOrder ==
    (pc = "done" /\ req.k \in {"tuple", "array", "unit"}) =>
        LET tys == ElemsOf(req)
            n   == Len(tys)
        IN  /\ pos = Len(tape)
            /\ pos = StartOf(tys, n + 1)
            /\ n = 0 => pos = 0 /\ tape = << >>
            /\ req.k = "unit" => result = UnitVal
            /\ req.k # "unit" =>
                 /\ result.t = req.k
                 /\ Len(result.elems) = n
                 /\ \A i \in 1..n :
                      result.elems[i] = gen(tys[i], RngAt(StartOf(tys, i))).val

\* (Option<u8>, u8): the first element is Some and takes two draws, the
\* second element takes the third.
C7_Witness ==
    /\ pc = "done" /\ req = TupleOf(<<OptionOf(T("u8")), T("u8")>>)
    /\ pos = 3
    /\ result.elems[1] = Some(IntVal("u8", NatBits(0, 8)))
    /\ result.elems[2] = IntVal("u8", NatBits(255, 8))

\* ---------------------------------------------------------------- C8
\* C8: a seedable type's constructor is invoked exactly once: its Ok value is
\* returned unchanged; on Err the generation aborts, the constructor is not
\* invoked again and no value is returned in its place.
C8_ConstructorOnceUnwrapped ==
    /\ Len(ctorLog) <= 1
    /\ req # T("seedable") => ctorLog = << >> /\ pc # "panicked"
    /\ req = T("seedable") =>
         /\ pc \in {"call", "done", "panicked"}
         /\ pc = "call" => ctorLog = << >> /\ result = Pending
         /\ pc = "done" =>
              /\ Len(ctorLog) = 1 /\ ctorLog[1].ok
              /\ result = ctorLog[1].val /\ result.t = "seeded"
              /\ result.seed = tape[1]
         /\ pc = "panicked" =>
              /\ Len(ctorLog) = 1 /\ ~ctorLog[1].ok
              /\ result = Pending

\* The constructor failed and the generation aborted.
C8_Witness ==
    /\ req = T("seedable") /\ pc = "panicked"
    /\ Len(ctorLog) = 1 /\ ~ctorLog[1].ok

\* ---------------------------------------------------------------- C9

\* C9 (as claimed): of the 2^21 values of a masked draw the sampler rejects
\* the surrogates and a small excess above the maximum code point, about
\* 0.2% in all - read generously here as at most 1% - so that a first
\* attempt is accepted nearly always.
C9_RejectsAboutOneFifthPercent ==
    (pc = "call" /\ req = T("char")) =>
        Cardinality({n \in 0..BitsNat(Truncate(CHAR_MASK, 21)) :
                        CharFromNumber(n) = None}) * 100
          <= BitsNat(Truncate(CHAR_MASK, 21)) + 1

\* --------------------------------------------------------------- C10
\* C10: a char generation takes one 32-bit draw per attempt, looks only at
\* its low 21 bits, and returns the low 21 bits of the first draw whose
\* masked value is a scalar value, drawing nothing after it; as long as every
\* draw so far is invalid it is still in its loop, with no value and no
\* error.
C10_FirstValidDrawReturned ==
    req = T("char") =>
        /\ pos = Len(tape)
        /\ pc \in {"call", "loop", "done"}
        /\ ctorLog = << >>
        /\ pc = "call" <=> tape = << >>
        /\ \A i \in 1..(Len(tape) - 1) : ~IsScalarValue(Masked(i))
        /\ pc = "loop" <=> (tape # << >> /\ ~IsScalarValue(Masked(Len(tape))))
        /\ pc = "loop" => result = Pending
        /\ pc = "done" =>
             /\ IsScalarValue(Masked(Len(tape)))
             /\ result = CharVal(Masked(Len(tape)))
        /\ (pc = "loop" /\ Len(tape) < MaxDraws) => ENABLED Gen_char

\* The max code point returned from a draw with its top bit set, after two
\* rejected draws.
C10_Witness ==
    /\ Done("char")
    /\ Len(tape) = 3
    /\ ~IsScalarValue(Masked(1)) /\ ~IsScalarValue(Masked(2))
    /\ tape[3] = Word(32768, 0, 32784, 65535)
    /\ result = CharVal(1114111)

====
